---------------------------- MODULE Spec2Model ----------------------------
(***************************************************************************)
(* Model of lidovky_project/lidovky_scraper.py: the field extractors, the  *)
(* body/snippet/tag derivation, parse_article, save_article,               *)
(* save_aggregate and the crawl loop of main.                              *)
(*                                                                         *)
(* Text is a sequence of one-character strings, so that strip, lower,      *)
(* startswith, len, slicing, split and join are computed character by      *)
(* character; a character outside ASCII is written by its name, as in     *)
(* "c-caron".  A Python value that may be None is a sequence of length 0   *)
(* (None) or 1 (the value).                                                *)
(***************************************************************************)
EXTENDS Integers, Sequences, FiniteSets, TLC

VARIABLES
    pc,            \* position of main: "loop", "done", "aborted" (an exception left main); "unit" in the function specifications
    links,         \* main: the candidate URLs after sorting and --limit
    idx,           \* main: 1-based index of the next candidate of the for loop
    single_file,   \* args.single_file
    fs,            \* the output directory: a function from paths to file contents
    all_articles,  \* main: the aggregate list
    clock,         \* index into Days of the day datetime.now() returns
    stdout,        \* the lines printed so far, as tagged tuples
    invoked,       \* the extractor calls made so far, as <<function, url>> pairs
    page,          \* the last page fetched: None (the fetch failed) or the parsed document
    art,           \* main: what parse_article returned for the last candidate
    result         \* function specifications: None, or the call made and its return value

vars == <<pc, links, idx, single_file, fs, all_articles, clock, stdout,
          invoked, page, art, result>>

-----------------------------------------------------------------------------
(* Bounds of the model. *)

MaxLinks == 2

MaxPars == 3

MaxTagLinks == 2

-----------------------------------------------------------------------------
(* Python values *)

None == <<>>

Some(x) == <<x>>

Truthy(o) == o # None /\ o[1] # <<>>

Rep(c, n) == [k \in 1..n |-> c]

SeqToSet(s) == {s[k] : k \in 1..Len(s)}

\* every sequence over S of length at most n
SeqsUpTo(S, n) == UNION {[1..k -> S] : k \in 0..n}

-----------------------------------------------------------------------------
(* str methods *)

IsSpace(c) == c \in {" ", "\n", "\t", "\r"}

\* s from its first character that is not whitespace
LStrip(s) ==
    IF \A k \in 1..Len(s) : IsSpace(s[k]) THEN <<>>
    ELSE SubSeq(s, CHOOSE k \in 1..Len(s) :
                       ~IsSpace(s[k]) /\ \A j \in 1..(k - 1) : IsSpace(s[j]),
                Len(s))

\* s up to its last character that is not whitespace
RStrip(s) ==
    IF \A k \in 1..Len(s) : IsSpace(s[k]) THEN <<>>
    ELSE SubSeq(s, 1, CHOOSE k \in 1..Len(s) :
                          ~IsSpace(s[k]) /\ \A j \in (k + 1)..Len(s) : IsSpace(s[j]))

\* str.strip()
Strip(s) == RStrip(LStrip(s))

UpperCase == <<"A","B","C","D","E","F","G","H","I","J","K","L","M",
               "N","O","P","Q","R","S","T","U","V","W","X","Y","Z">>

LowerCase == <<"a","b","c","d","e","f","g","h","i","j","k","l","m",
               "n","o","p","q","r","s","t","u","v","w","x","y","z">>

LowerChar(c) ==
    IF \E k \in 1..26 : UpperCase[k] = c
    THEN LowerCase[CHOOSE k \in 1..26 : UpperCase[k] = c]
    ELSE c

\* str.lower()
Lower(s) == [k \in 1..Len(s) |-> LowerChar(s[k])]

\* str.startswith(p)
StartsWith(s, p) == Len(s) >= Len(p) /\ SubSeq(s, 1, Len(p)) = p

\* s[:n]
Prefix(s, n) == SubSeq(s, 1, IF Len(s) < n THEN Len(s) ELSE n)

\* sep.join(parts)
RECURSIVE Join(_, _)
Join(sep, parts) ==
    IF parts = <<>> THEN <<>>
    ELSE IF Len(parts) = 1 THEN parts[1]
    ELSE parts[1] \o sep \o Join(sep, Tail(parts))

\* s.split(c) for a one-character separator: the pieces between the separators
\* the positions lo..hi of s that hold c, in increasing order
RECURSIVE Positions(_, _, _, _)
Positions(s, c, lo, hi) ==
    IF lo > hi THEN <<>>
    ELSE IF lo = hi THEN (IF s[lo] = c THEN <<lo>> ELSE <<>>)
    ELSE Positions(s, c, lo, (lo + hi) \div 2) \o Positions(s, c, (lo + hi) \div 2 + 1, hi)

Split(s, c) ==
    LET at == <<0>> \o Positions(s, c, 1, Len(s)) \o <<Len(s) + 1>>
    IN  [k \in 1..(Len(at) - 1) |-> SubSeq(s, at[k] + 1, at[k + 1] - 1)]

\* the order of str comparison: by code point, character by character
CharOrder == <<" ", ",", "-", ".", "0","1","2","3","4","5","6","7","8","9", ":",
               "A","B","C","D","E","F","G","H","I","J","K","L","M",
               "N","O","P","Q","R","S","T","U","V","W","X","Y","Z",
               "a","b","c","d","e","f","g","h","i","j","k","l","m",
               "n","o","p","q","r","s","t","u","v","w","x","y","z">>

Ord(c) == CHOOSE k \in 1..Len(CharOrder) : CharOrder[k] = c

RECURSIVE StrLess(_, _)
StrLess(a, b) ==
    IF b = <<>> THEN FALSE
    ELSE IF a = <<>> THEN TRUE
    ELSE IF a[1] = b[1] THEN StrLess(Tail(a), Tail(b))
    ELSE Ord(a[1]) < Ord(b[1])

\* sorted(S) for a set of str: the k-th element has k - 1 elements below it
Sorted(S) ==
    [k \in 1..Cardinality(S) |->
        CHOOSE x \in S : Cardinality({y \in S : StrLess(y, x)}) = k - 1]

-----------------------------------------------------------------------------
(* The extractors.  A soup is a record of what the selectors of the code   *)
(* find in the document:                                                   *)
(*   h1, title         text of the first <h1> / <title>, None if absent    *)
(*   og_title          content of meta[property="og:title"], None if the   *)
(*                     element or the attribute is absent                  *)
(*   published_time, time_datetime, pubdate   the three date sources       *)
(*   authors           the four author candidates, each None or a record   *)
(*   containers        for each of the five container selectors, None or   *)
(*                     the raw texts of the <p> elements inside the match  *)
(*   all_p             the raw texts of every <p> of the document          *)
(*   description, keywords   content of the two meta elements              *)
(*   tag_links         the raw texts of the a[rel~="tag"] elements         *)
(***************************************************************************)

\* el.get_text(strip=True) if el else None, for an element holding one text node
text_or_none(el) == IF el = None THEN None ELSE Some(Strip(el[1]))

extract_title(s) ==
    LET h1 == text_or_none(s.h1)
        t  == text_or_none(s.title)
    IN  IF Truthy(h1) THEN h1[1]
        ELSE IF Truthy(s.og_title) THEN Strip(s.og_title[1])
        ELSE IF Truthy(t) THEN t[1]
        ELSE <<>>

\* re.sub(r"\s+", " ", ptext): every run of whitespace becomes one space
RECURSIVE CollapseRange(_, _, _)
CollapseRange(s, lo, hi) ==
    IF lo > hi THEN <<>>
    ELSE IF lo = hi
         THEN (IF ~IsSpace(s[lo]) THEN <<s[lo]>>
               ELSE IF lo > 1 /\ IsSpace(s[lo - 1]) THEN <<>> ELSE <<" ">>)
    ELSE CollapseRange(s, lo, (lo + hi) \div 2) \o CollapseRange(s, (lo + hi) \div 2 + 1, hi)

CollapseSpace(s) == CollapseRange(s, 1, Len(s))

clean_paragraph(ptext) == Strip(CollapseSpace(ptext))

MinParLen == 40

SkipPrefixes == { <<"f","o","t","o">>,
                  <<"a","u","t","o","r",":">>,
                  <<"r","e","k","l","a","m","a">> }

\* KeepParagraph with > for >=: a paragraph of exactly 40 characters is lost
KeepParagraphOver(txt) ==
    /\ Len(txt) > MinParLen
    /\ ~ \E p \in SkipPrefixes : StartsWith(Lower(txt), p)

\* the filter of the first loop of extract_body_paragraphs
KeepParagraph(txt) ==
    /\ Len(txt) >= MinParLen
    /\ ~ \E p \in SkipPrefixes : StartsWith(Lower(txt), p)

\* container = first selector that matches; ps = (container or soup).select("p")
ContainerParagraphs(s) ==
    IF \E k \in 1..Len(s.containers) : s.containers[k] # None
    THEN s.containers[CHOOSE k \in 1..Len(s.containers) :
                         /\ s.containers[k] # None
                         /\ \A j \in 1..(k - 1) : s.containers[j] = None][1]
    ELSE s.all_p

RECURSIVE FilterParagraphs(_)
FilterParagraphs(ps) ==
    IF ps = <<>> THEN <<>>
    ELSE LET txt == clean_paragraph(ps[1])
         IN  (IF KeepParagraph(txt) THEN <<txt>> ELSE <<>>) \o FilterParagraphs(Tail(ps))

\* the second loop: uniq/seen
RECURSIVE Uniq(_, _)
Uniq(texts, seen) ==
    IF texts = <<>> THEN <<>>
    ELSE IF texts[1] \in seen THEN Uniq(Tail(texts), seen)
    ELSE <<texts[1]>> \o Uniq(Tail(texts), seen \cup {texts[1]})

extract_body_paragraphs(s) == Uniq(FilterParagraphs(ContainerParagraphs(s)), {})

SnippetLen == 400

\* extract_snippet without the [:400] slice
extract_snippet_unsliced(s, body_paragraphs) ==
    IF Truthy(s.description) THEN clean_paragraph(s.description[1])
    ELSE IF body_paragraphs # <<>> THEN body_paragraphs[1]
    ELSE IF s.all_p # <<>> THEN clean_paragraph(s.all_p[1])
    ELSE <<>>

extract_snippet(s, body_paragraphs) ==
    IF Truthy(s.description) THEN clean_paragraph(s.description[1])
    ELSE IF body_paragraphs # <<>> THEN Prefix(body_paragraphs[1], SnippetLen)
    ELSE IF s.all_p # <<>> THEN clean_paragraph(s.all_p[1])
    ELSE <<>>

\* the stripped, non-empty pieces of the keywords content
KeywordTags(s) ==
    IF Truthy(s.keywords)
    THEN {Strip(t) : t \in SeqToSet(Split(s.keywords[1], ","))} \ {<<>>}
    ELSE {}

\* the stripped, non-empty texts of the rel~="tag" links
LinkTags(s) == {Strip(t) : t \in SeqToSet(s.tag_links)} \ {<<>>}

extract_tags(s) == Sorted(KeywordTags(s) \cup LinkTags(s))

-----------------------------------------------------------------------------
(* Dates.  A day is a record [y, m, d]; the time of day is not modelled,   *)
(* datetime.now() is noon of Days[clock].                                  *)

DigitChars == <<"0","1","2","3","4","5","6","7","8","9">>

IsDigit(c) == \E k \in 1..10 : DigitChars[k] = c

DigitVal(c) == (CHOOSE k \in 1..10 : DigitChars[k] = c) - 1

AllDigits(s) == \A k \in 1..Len(s) : IsDigit(s[k])

RECURSIVE ToInt(_)
ToInt(s) == IF s = <<>> THEN 0 ELSE 10 * ToInt(SubSeq(s, 1, Len(s) - 1)) + DigitVal(s[Len(s)])

RECURSIVE Pow10(_)
Pow10(n) == IF n = 0 THEN 1 ELSE 10 * Pow10(n - 1)

\* n as w decimal digits, zero padded: what %Y, %m, %d, %H, %M, %S print
Pad(n, w) == [k \in 1..w |-> DigitChars[((n \div Pow10(w - k)) % 10) + 1]]

IsLeap(y) == (y % 4 = 0 /\ y % 100 # 0) \/ y % 400 = 0

DaysInMonth(y, m) ==
    IF m = 2 THEN (IF IsLeap(y) THEN 29 ELSE 28)
    ELSE IF m \in {4, 6, 9, 11} THEN 30 ELSE 31

\* HH:MM or HH:MM:SS
IsClockTime(s) ==
    /\ Len(s) \in {5, 8}
    /\ AllDigits(SubSeq(s, 1, 2)) /\ s[3] = ":" /\ AllDigits(SubSeq(s, 4, 5))
    /\ ToInt(SubSeq(s, 1, 2)) < 24 /\ ToInt(SubSeq(s, 4, 5)) < 60
    /\ Len(s) = 8 => (s[6] = ":" /\ AllDigits(SubSeq(s, 7, 8)) /\ ToInt(SubSeq(s, 7, 8)) < 60)

\* the time part of an ISO string: a clock time, then an optional +HH:MM or -HH:MM offset
IsIsoTime(s) ==
    \/ IsClockTime(s)
    \/ /\ Len(s) \in {11, 14}
       /\ s[Len(s) - 5] \in {"+", "-"}
       /\ IsClockTime(SubSeq(s, 1, Len(s) - 6))
       /\ IsClockTime(SubSeq(s, Len(s) - 4, Len(s)))

\* datetime.fromisoformat(s): the day, or None where it raises ValueError.
\* YYYY-MM-DD, optionally followed by one separator character and a time.
fromisoformat(s) ==
    IF /\ Len(s) >= 10
       /\ AllDigits(SubSeq(s, 1, 4)) /\ s[5] = "-"
       /\ AllDigits(SubSeq(s, 6, 7)) /\ s[8] = "-"
       /\ AllDigits(SubSeq(s, 9, 10))
       /\ ToInt(SubSeq(s, 1, 4)) >= 1
       /\ ToInt(SubSeq(s, 6, 7)) \in 1..12
       /\ ToInt(SubSeq(s, 9, 10)) \in 1..DaysInMonth(ToInt(SubSeq(s, 1, 4)), ToInt(SubSeq(s, 6, 7)))
       /\ Len(s) > 10 => (Len(s) > 11 /\ IsIsoTime(SubSeq(s, 12, Len(s))))
    THEN Some([y |-> ToInt(SubSeq(s, 1, 4)), m |-> ToInt(SubSeq(s, 6, 7)),
               d |-> ToInt(SubSeq(s, 9, 10))])
    ELSE None

\* s.replace("Z", "+00:00")
RECURSIVE ReplaceZRange(_, _, _)
ReplaceZRange(s, lo, hi) ==
    IF lo > hi THEN <<>>
    ELSE IF lo = hi
         THEN (IF s[lo] = "Z" THEN <<"+","0","0",":","0","0">> ELSE <<s[lo]>>)
    ELSE ReplaceZRange(s, lo, (lo + hi) \div 2) \o ReplaceZRange(s, (lo + hi) \div 2 + 1, hi)

ReplaceZ(s) == ReplaceZRange(s, 1, Len(s))

\* datetime.isoformat() of noon of the day
isoformat(day) ==
    Pad(day.y, 4) \o <<"-">> \o Pad(day.m, 2) \o <<"-">> \o Pad(day.d, 2)
        \o <<"T","1","2",":","0","0",":","0","0">>

\* the days the clock of a run goes through
Days == << [y |-> 2025, m |-> 10, d |-> 31], [y |-> 2025, m |-> 11, d |-> 1] >>

extract_date(s, now) ==
    IF Truthy(s.published_time) THEN s.published_time[1]
    ELSE IF Truthy(s.time_datetime) THEN s.time_datetime[1]
    ELSE IF Truthy(s.pubdate) THEN s.pubdate[1]
    ELSE isoformat(now)

Unknown == <<"N","e","z","n","a-acute","m","y-acute">>

\* an author candidate is None or [name, content, text]: the tag name, its content
\* attribute (None if absent) and its text
RECURSIVE AuthorFrom(_)
AuthorFrom(cand) ==
    IF cand = <<>> THEN Unknown
    ELSE LET c == cand[1]
         IN  IF c = None THEN AuthorFrom(Tail(cand))
             ELSE IF c[1].name = "meta" /\ Truthy(c[1].content) THEN Strip(c[1].content[1])
             ELSE IF Strip(c[1].text) # <<>> THEN Strip(c[1].text)
             ELSE AuthorFrom(Tail(cand))

extract_author(s) == AuthorFrom(s.authors)

-----------------------------------------------------------------------------
(* parse_article *)

SOURCE_SECOND_LEVEL == <<"l","i","d","o","v","k","y">>

NewLine2 == <<"\n", "\n">>

\* what parse_article returns for the page fetched from url (None: the request raised):
\* None, or the article
parse_article(url, pg, now) ==
    IF pg = None THEN None
    ELSE LET s         == pg[1]
             title     == extract_title(s)
             body_pars == extract_body_paragraphs(s)
         IN  IF title = <<>> THEN None
             ELSE Some([title           |-> title,
                        url             |-> url,
                        date            |-> extract_date(s, now),
                        author          |-> extract_author(s),
                        source          |-> SOURCE_SECOND_LEVEL \o <<".","c","z">>,
                        content_snippet |-> extract_snippet(s, body_pars),
                        full_content    |-> Join(NewLine2, body_pars),
                        tags            |-> extract_tags(s)])

NoPath == [dir |-> <<>>, name |-> <<>>]

\* a printed line: what it reports, and the URL or the path it names
Line(tag, url, path) == [tag |-> tag, url |-> url, path |-> path]

\* parse_article without its try/except: the request's exception leaves it
parse_article_raises_uncaught(pg) == pg = None

\* whether an exception leaves parse_article: the only statements that raise, the
\* request and raise_for_status, are inside try/except Exception
parse_article_raises(pg) == FALSE

\* the lines parse_article prints
parse_article_prints(url, pg) ==
    IF pg = None THEN << Line("WARN fetch", url, NoPath) >>
    ELSE IF extract_title(pg[1]) = <<>> THEN << Line("WARN no title", url, NoPath) >>
    ELSE <<>>

\* parse_article_calls, were parse_article to return as soon as the body is empty
parse_article_calls_until_body(pg) ==
    IF pg = None THEN <<>>
    ELSE IF extract_title(pg[1]) = <<>> THEN <<"extract_title">>
    ELSE IF extract_body_paragraphs(pg[1]) = <<>>
         THEN <<"extract_title", "extract_date", "extract_author", "extract_body_paragraphs">>
    ELSE <<"extract_title", "extract_date", "extract_author",
           "extract_body_paragraphs", "extract_snippet", "extract_tags">>

\* the extractors parse_article calls, in the order of the calls
parse_article_calls(pg) ==
    IF pg = None THEN <<>>
    ELSE IF extract_title(pg[1]) = <<>> THEN <<"extract_title">>
    ELSE <<"extract_title", "extract_date", "extract_author",
           "extract_body_paragraphs", "extract_snippet", "extract_tags">>

-----------------------------------------------------------------------------
(* Persistence.  fs is [dirs, files]: the set of directories below         *)
(* <base_dir>/data/lidovky, each <<yyyy, mm>>, and a function from paths   *)
(* [dir, name] to contents.  A file's content is the value json.dump was   *)
(* given: one article, or the list of the aggregate, as a sequence.        *)

\* hashlib.md5(url).hexdigest()[-8:] of the candidate URLs of the model
md5_tail8(url) ==
    CASE url = "https://www.lidovky.cz/domov/a23127" -> <<"6","4","1","e","0","5","6","7">>
      [] url = "https://www.lidovky.cz/domov/a5374"  -> <<"6","4","1","e","0","5","6","7">>
      [] url = "https://www.lidovky.cz/sport/b1"     -> <<"8","9","7","5","d","6","1","0">>

Json == <<".","j","s","o","n">>

\* save_day with the first day of the run for the current one
save_day_of_start(article, now) ==
    LET dt == fromisoformat(ReplaceZ(article.date))
    IN  IF dt = None THEN Days[1] ELSE dt[1]

\* the day save_article names the path after
save_day(article, now) ==
    LET dt == fromisoformat(ReplaceZ(article.date))
    IN  IF dt = None THEN now ELSE dt[1]

article_path(article, now) ==
    LET dt == save_day(article, now)
    IN  [dir  |-> <<Pad(dt.y, 4), Pad(dt.m, 2)>>,
         name |-> SOURCE_SECOND_LEVEL \o <<"-">> \o Pad(dt.y, 4) \o Pad(dt.m, 2) \o Pad(dt.d, 2)
                      \o <<"-">> \o md5_tail8(article.url) \o Json]

\* what json.dump(article, f) leaves in the file
article_file(article) == [kind |-> "article", data |-> <<article>>]

WriteFile(f, path, content) ==
    [dirs  |-> f.dirs \cup {path.dir},
     files |-> [q \in DOMAIN f.files \cup {path} |-> IF q = path THEN content ELSE f.files[q]]]

\* save_article without the test of outpath.exists()
save_article_overwriting(article, f, now) ==
    WriteFile(f, article_path(article, now), article_file(article))

\* the output directory after save_article
save_article(article, f, now) ==
    LET outpath == article_path(article, now)
    IN  IF outpath \in DOMAIN f.files
        THEN [f EXCEPT !.dirs = @ \cup {outpath.dir}]
        ELSE WriteFile(f, outpath, article_file(article))

\* the line save_article prints
save_article_prints(article, f, now) ==
    LET outpath == article_path(article, now)
    IN  IF outpath \in DOMAIN f.files
        THEN << Line("SKIP", article.url, outpath) >>
        ELSE << Line("OK", article.url, outpath) >>

aggregate_path(now) ==
    [dir  |-> <<Pad(now.y, 4), Pad(now.m, 2)>>,
     name |-> SOURCE_SECOND_LEVEL \o <<"-","a","g","g","r","e","g","a","t","e","-">>
                  \o Pad(now.y, 4) \o Pad(now.m, 2) \o Pad(now.d, 2)
                  \o <<"-">> \o Pad(12, 2) \o Pad(0, 2) \o Pad(0, 2) \o Json]

\* the output directory after save_aggregate
save_aggregate(articles, f, now) ==
    IF articles = <<>> THEN f
    ELSE WriteFile(f, aggregate_path(now), [kind |-> "aggregate", data |-> articles])

-----------------------------------------------------------------------------
(* The documents of the model *)

TitleX == <<"T","i","t","l","e"," ","X">>

ParA == <<"A">> \o Rep("a", 39)

ParB == <<"B">> \o Rep("b", 44)

Caption == <<"F","o","t","o",":"," ">> \o Rep("c", 40)

DateZ == <<"2","0","2","5","-","1","0","-","2","1","T","1","0",":","0","0",":","0","0","Z">>

DateCz == <<"2","1","."," ","1","0","."," ","2","0","2","5">>

\* <h1>Title X</h1>, an article body of ParA, a published_time, nothing else
BaseSoup ==
    [h1 |-> Some(TitleX), og_title |-> None, title |-> None,
     published_time |-> Some(DateZ), time_datetime |-> None, pubdate |-> None,
     authors |-> <<None, None, None, None>>,
     containers |-> <<Some(<<ParA>>), None, None, None, None>>,
     all_p |-> <<ParA>>,
     description |-> None, keywords |-> None, tag_links |-> <<>>]

\* the pages a candidate URL may serve: None is a failed request
MainPages ==
    { None,
      Some([BaseSoup EXCEPT !.h1 = None]),
      Some([BaseSoup EXCEPT !.h1 = None, !.og_title = Some(<<" ">>), !.title = Some(TitleX)]),
      Some([BaseSoup EXCEPT !.containers = <<Some(<<Caption>>), None, None, None, None>>,
                            !.all_p = <<Caption>>,
                            !.description = Some(TitleX),
                            !.keywords = Some(<<"a">>)]),
      Some(BaseSoup),
      Some([BaseSoup EXCEPT !.containers = <<None, None, None, Some(<<ParB, ParA>>), None>>,
                            !.all_p = <<ParB, ParA>>]),
      Some([BaseSoup EXCEPT !.published_time = Some(DateCz)]),
      Some([BaseSoup EXCEPT !.published_time = None]) }

-----------------------------------------------------------------------------
(* main *)

\* the candidate URLs of the model, in sorted order
UrlPool == << "https://www.lidovky.cz/domov/a23127",
              "https://www.lidovky.cz/domov/a5374",
              "https://www.lidovky.cz/sport/b1" >>

\* sorted(links) of get_article_links_from_main, cut by --limit: the strictly
\* increasing sequences over UrlPool of at most MaxLinks URLs
LinkLists ==
    { l \in SeqsUpTo(1..Len(UrlPool), MaxLinks) :
          \A k \in 1..(Len(l) - 1) : l[k] < l[k + 1] }

NoFiles == [dirs |-> {}, files |-> <<>>]

\* an article of an earlier run, stored under the path of DateZ and of the URLs a5374 and a23127
OldArticle ==
    [title |-> TitleX, url |-> "https://www.lidovky.cz/domov/a5374", date |-> DateZ,
     author |-> Unknown, source |-> SOURCE_SECOND_LEVEL \o <<".","c","z">>,
     content_snippet |-> ParB, full_content |-> ParB, tags |-> <<>>]

\* the states the output directory may be in when main starts
StartDirs ==
    { NoFiles,
      save_article(OldArticle, NoFiles, Days[1]),
      save_article([OldArticle EXCEPT !.date = DateCz], NoFiles, Days[1]) }

NoUnit == result = None

InitMain ==
    /\ pc = "loop"
    /\ \E l \in LinkLists : links = [k \in 1..Len(l) |-> UrlPool[l[k]]]
    /\ idx = 1
    /\ single_file \in BOOLEAN
    /\ fs \in StartDirs
    /\ all_articles = <<>>
    /\ clock = 1
    /\ stdout = <<>>
    /\ invoked = <<>>
    /\ page = None
    /\ art = None
    /\ NoUnit

\* time passes (a request, the sleep between two requests)
Tick ==
    /\ pc = "loop"
    /\ clock < Len(Days)
    /\ clock' = clock + 1
    /\ UNCHANGED <<pc, links, idx, single_file, fs, all_articles, stdout, invoked, page, art,
                   result>>

\* accepted without a look at full_content
accepted_if_parsed(a) == a # None

\* art and art.get("full_content")
accepted(a) == a # None /\ a[1].full_content # <<>>

\* the lines one pass of the for loop prints
body_prints(url, pg, f, now) ==
    LET a == parse_article(url, pg, now)
    IN  << Line("ITEM", url, NoPath) >> \o parse_article_prints(url, pg) \o
        (IF accepted(a)
         THEN (IF single_file THEN << Line("OK aggregate", url, NoPath) >>
               ELSE save_article_prints(a[1], f, now))
         ELSE << Line("WARN empty", url, NoPath) >>)

\* one pass of the for loop of main, the candidate's request answered by pg
LoopBody(pg) ==
    /\ pc = "loop"
    /\ idx <= Len(links)
    /\ LET url == links[idx]
           now == Days[clock]
           a   == parse_article(url, pg, now)
       IN  /\ page' = pg
           /\ art' = (IF parse_article_raises(pg) THEN art ELSE a)
           /\ invoked' = invoked \o [k \in 1..Len(parse_article_calls(pg)) |->
                                        <<parse_article_calls(pg)[k], url>>]
           /\ IF parse_article_raises(pg)
              THEN /\ pc' = "aborted"
                   /\ stdout' = Append(stdout, Line("ITEM", url, NoPath))
                   /\ UNCHANGED <<idx, fs, all_articles>>
              ELSE /\ pc' = pc
                   /\ idx' = idx + 1
                   /\ stdout' = stdout \o body_prints(url, pg, fs, now)
                   /\ IF accepted(a)
                      THEN IF single_file
                           THEN /\ all_articles' = Append(all_articles, a[1])
                                /\ fs' = fs
                           ELSE /\ fs' = save_article(a[1], fs, now)
                                /\ all_articles' = all_articles
                      ELSE UNCHANGED <<fs, all_articles>>
    /\ UNCHANGED <<links, single_file, clock, result>>

\* the request fails: parse_article catches the exception
FetchFails == LoopBody(None)

\* the request succeeds
FetchSucceeds == \E pg \in MainPages \ {None} : LoopBody(pg)

\* after the loop, without --single-file
Finish ==
    /\ pc = "loop"
    /\ idx > Len(links)
    /\ ~single_file
    /\ pc' = "done"
    /\ UNCHANGED <<links, idx, single_file, fs, all_articles, clock, stdout, invoked, page, art,
                   result>>

\* after the loop, with --single-file: save_aggregate and the line about it
Aggregate ==
    /\ pc = "loop"
    /\ idx > Len(links)
    /\ single_file
    /\ fs' = save_aggregate(all_articles, fs, Days[clock])
    /\ stdout' = Append(stdout,
                        IF all_articles = <<>> THEN Line("WARN no articles", "", NoPath)
                        ELSE Line("OK aggregate file", "", aggregate_path(Days[clock])))
    /\ pc' = "done"
    /\ UNCHANGED <<links, idx, single_file, all_articles, clock, invoked, page, art, result>>

Next == Tick \/ FetchFails \/ FetchSucceeds \/ Finish \/ Aggregate

Spec == InitMain /\ [][Next]_vars

-----------------------------------------------------------------------------
(* The extractors on their own: one call on a document drawn from a set.   *)

IdleMain ==
    /\ pc = "unit"
    /\ links = <<>>
    /\ idx = 1
    /\ single_file = FALSE
    /\ fs = NoFiles
    /\ all_articles = <<>>
    /\ clock = 1
    /\ stdout = <<>>
    /\ invoked = <<>>
    /\ art = None

\* the call fn(page) returned value
Returned(fn, value) ==
    /\ pc = "unit"
    /\ result = None
    /\ result' = Some([fn |-> fn, value |-> value])
    /\ UNCHANGED <<pc, links, idx, single_file, fs, all_articles, clock, stdout, invoked, page, art>>

Called(fn) == result # None /\ result[1].fn = fn

CallExtractBody == Returned("extract_body_paragraphs", extract_body_paragraphs(page[1]))

CallExtractTitle == Returned("extract_title", extract_title(page[1]))

CallParseArticle ==
    Returned("parse_article", parse_article(UrlPool[1], page, Days[clock]))

\* ParA between whitespace: cleans to ParA
ParAws == <<"\n", " ">> \o ParA \o <<" ", "\t">>

\* 39 characters
Short39 == <<"S">> \o Rep("s", 38)

\* 20 + 20 characters around a run of whitespace: 41 characters once cleaned
Spaced == <<"W">> \o Rep("w", 19) \o <<" ", "\n", " ">> \o Rep("w", 20)

Advert == <<"R","E","K","L","A","M","A"," ">> \o Rep("r", 40)

ParPool == {ParA, ParAws, ParB, Short39, Spaced, Caption, Advert}

\* the paragraphs are those of the whole document, or those of div.article-body
\* in a document that holds a caption before it
BodySoups ==
    UNION { { [BaseSoup EXCEPT !.containers = <<None, None, None, None, None>>, !.all_p = ps],
              [BaseSoup EXCEPT !.containers = <<None, Some(ps), None, Some(<<Caption>> \o ps), None>>,
                               !.all_p = <<Caption>> \o ps] }
            : ps \in SeqsUpTo(ParPool, MaxPars) }

InitBody == IdleMain /\ result = None /\ \E s \in BodySoups : page = Some(s)

SpecBody == InitBody /\ [][CallExtractBody]_vars

\* the texts an <h1>, an og:title content or a <title> may hold
TitleTexts == { <<>>, <<" ">>, TitleX, <<" ">> \o TitleX \o <<"\n">> }

DocTitle == <<"D","o","c">>

TitleSoups ==
    { [BaseSoup EXCEPT !.h1 = h, !.og_title = og, !.title = t] :
          h \in {None} \cup {Some(x) : x \in TitleTexts},
          og \in {None} \cup {Some(x) : x \in TitleTexts},
          t \in {None, Some(<<>>), Some(<<" ">>), Some(DocTitle)} }

InitTitle == IdleMain /\ result = None /\ \E s \in TitleSoups : page = Some(s)

NextTitle == CallExtractTitle \/ CallParseArticle

SpecTitle == InitTitle /\ [][NextTitle]_vars

\* 450 characters
Par450 == <<"L">> \o Rep("l", 449)

\* a caption of 506 characters: not a body paragraph
Caption500 == <<"F","o","t","o",":"," ">> \o Rep("c", 500)

\* a description of 401 characters, and one of 11 once cleaned
Desc401 == <<"D">> \o Rep("d", 400)

DescShort == <<" ","T","w","o"," "," ","w","o","r","d","s","\n">>

SnippetSoups ==
    { [BaseSoup EXCEPT !.containers = <<None, None, None, None, None>>,
                       !.all_p = ps, !.description = d] :
          ps \in SeqsUpTo({ParA, Par450, Caption500, Short39}, MaxPars),
          d \in {None, Some(<<>>), Some(DescShort), Some(Desc401)} }

InitSnippet == IdleMain /\ result = None /\ \E s \in SnippetSoups : page = Some(s)

SpecSnippet == InitSnippet /\ [][CallParseArticle]_vars

\* "Cena byla 150 000 Kc a sleva 3,2 % plati od 21. 10. 2025.", with its diacritics
PriceText ==
    <<"C","e","n","a"," ","b","y","l","a"," ","1","5","0"," ","0","0","0"," ","K","c-caron"," ",
      "a"," ","s","l","e","v","a"," ","3",",","2"," ","%"," ","p","l","a","t","i-acute"," ",
      "o","d"," ","2","1","."," ","1","0","."," ","2","0","2","5",".">>

\* "k01,k02,...,k41"
Keywords41 == Join(<<",">>, [k \in 1..41 |-> <<"k">> \o Pad(k, 2)])

KeywordContents ==
    { None, Some(<<>>), Some(<<"b",","," ","a"," ",",",",","b">>),
      Some(<<"s","p","o","r","t",",","d","o","m","o","v">>), Some(Keywords41) }

TagLinkTexts == { <<>>, <<"a">>, <<" ","z"," ">>, <<"S","p","o","r","t">> }

TagSoups ==
    { [BaseSoup EXCEPT !.containers = <<Some(<<b>>), None, None, None, None>>,
                       !.all_p = <<b>>, !.keywords = kw, !.tag_links = tl] :
          b \in {ParA, PriceText},
          kw \in KeywordContents,
          tl \in SeqsUpTo(TagLinkTexts, MaxTagLinks) }

InitTags == IdleMain /\ result = None /\ \E s \in TagSoups : page = Some(s)

SpecTags == InitTags /\ [][CallParseArticle]_vars

\* parse_article returned an article
Parsed == Called("parse_article") /\ result[1].value # None

Article == result[1].value[1]

-----------------------------------------------------------------------------
(* C5 *)

\* the cleaned texts of the <p> elements of the chosen container
CleanedInput ==
    LET raw == ContainerParagraphs(page[1])
    IN  [k \in 1..Len(raw) |-> clean_paragraph(raw[k])]

\* at least 40 characters, and the lowercase text starts with none of the three words
IsContent(t) ==
    /\ Len(t) >= 40
    /\ SubSeq(Lower(t), 1, 4) # <<"f","o","t","o">>
    /\ SubSeq(Lower(t), 1, 6) # <<"a","u","t","o","r",":">>
    /\ SubSeq(Lower(t), 1, 7) # <<"r","e","k","l","a","m","a">>

FirstAt(seq, t) == CHOOSE k \in 1..Len(seq) : seq[k] = t /\ \A j \in 1..(k - 1) : seq[j] # t

\* C5: extract_body_paragraphs returns exactly the cleaned paragraphs of at least 40
\* characters that start with none of "foto", "autor:", "reklama" (case-insensitively),
\* each once, in the order of their first occurrence in the input.
C5_BodyParagraphs ==
    Called("extract_body_paragraphs") =>
        LET out == result[1].value
            inp == CleanedInput
        IN  /\ \A k \in 1..Len(out) : IsContent(out[k]) /\ \E j \in 1..Len(inp) : inp[j] = out[k]
            /\ \A j \in 1..Len(inp) : IsContent(inp[j]) => \E k \in 1..Len(out) : out[k] = inp[j]
            /\ \A k1, k2 \in 1..Len(out) : k1 < k2 => out[k1] # out[k2]
            /\ \A k1, k2 \in 1..Len(out) : k1 < k2 => FirstAt(inp, out[k1]) < FirstAt(inp, out[k2])

\* the input [A, B, A], with a paragraph of exactly 40 characters, gave [A, B]
C5_Witness ==
    /\ Called("extract_body_paragraphs")
    /\ CleanedInput = <<ParA, ParB, ParA>>
    /\ result[1].value = <<ParA, ParB>>

-----------------------------------------------------------------------------
(* C6 *)

\* C6 as claimed: the content_snippet of every article parse_article returns is
\* at most 400 characters long.
C6_SnippetAtMost400 == Parsed => Len(Article.content_snippet) <= 400

\* the snippet comes from the first body paragraph: the page has no non-empty
\* description and the body is not empty
FromBody == ~Truthy(page[1].description) /\ Article.full_content # <<>>

\* the first paragraph of full_content: the text before the first blank-line separator
FirstParagraph(t) ==
    LET IsBreak(k) == t[k] = "\n" /\ t[k + 1] = "\n"
    IN  IF \E k \in 1..(Len(t) - 1) : IsBreak(k)
        THEN SubSeq(t, 1, (CHOOSE k \in 1..(Len(t) - 1) :
                               IsBreak(k) /\ \A j \in 1..(k - 1) : ~IsBreak(j)) - 1)
        ELSE t

\* C6 as amended: a content_snippet that comes from the first body paragraph is the
\* first 400 characters of that paragraph, so at most 400 characters long; a meta
\* description is returned whitespace-normalised and whole, whatever its length.
C6_SnippetFromBodyAtMost400 ==
    Parsed =>
        /\ FromBody =>
              /\ Len(Article.content_snippet) <= 400
              /\ Article.content_snippet =
                     SubSeq(FirstParagraph(Article.full_content), 1,
                            IF Len(FirstParagraph(Article.full_content)) < 400
                            THEN Len(FirstParagraph(Article.full_content)) ELSE 400)
        /\ Truthy(page[1].description) =>
              Article.content_snippet = clean_paragraph(page[1].description[1])

\* a first body paragraph of 450 characters was cut to 400
C6_Witness ==
    /\ Parsed
    /\ FromBody
    /\ Len(FirstParagraph(Article.full_content)) > 400
    /\ Len(Article.content_snippet) = 400

-----------------------------------------------------------------------------
(* C7 *)

\* C7: the tags of every article parse_article returns are duplicate-free,
\* lexicographically sorted and at most 40.
C7_TagsSortedCapped ==
    Parsed =>
        /\ \A k \in 1..(Len(Article.tags) - 1) : StrLess(Article.tags[k], Article.tags[k + 1])
        /\ Len(Article.tags) <= 40

-----------------------------------------------------------------------------
(* C10 *)

StrippedOrEmpty(o) == IF o = None THEN <<>> ELSE Strip(o[1])

\* the first of <h1> text, og:title content, <title> text that is non-empty once
\* trimmed; the empty string when none is
TitleChain(s) ==
    IF StrippedOrEmpty(s.h1) # <<>> THEN StrippedOrEmpty(s.h1)
    ELSE IF StrippedOrEmpty(s.og_title) # <<>> THEN StrippedOrEmpty(s.og_title)
    ELSE StrippedOrEmpty(s.title)

\* C10: extract_title returns the value of the first strategy that produces a
\* non-empty trimmed value, and a page one of whose strategies does is not dropped
\* by parse_article for a missing title.
C10_TitleFirstNonEmpty ==
    /\ Called("extract_title") => result[1].value = TitleChain(page[1])
    /\ (Called("parse_article") /\ TitleChain(page[1]) # <<>>) => result[1].value # None

-----------------------------------------------------------------------------
(* C8.  The derived tags are those of the specification's tag deriver:     *)
(* monetary amounts, percentages and Czech numeric dates found in the      *)
(* text, scanned from left to right without overlap.                       *)

\* the character at position k, "" outside the text
At(t, k) == IF k \in 1..Len(t) THEN t[k] ELSE ""

IsWordChar(c) ==
    \/ IsDigit(c)
    \/ \E k \in 1..26 : c = UpperCase[k] \/ c = LowerCase[k]
    \/ c \in {"_", "a-acute", "c-caron", "i-acute", "y-acute"}

\* a numeral may start at i: a digit, on the left a word boundary
NumeralStart(t, i) == IsDigit(At(t, i)) /\ ~IsWordChar(At(t, i - 1))

\* the last position of the run of digits that starts at i (i - 1: no digit at i)
DigitsEnd(t, i) ==
    CHOOSE j \in (i - 1)..Len(t) :
        (\A k \in i..j : IsDigit(t[k])) /\ ~IsDigit(At(t, j + 1))

\* the first position from i on that holds no whitespace
SkipSpaces(t, i) ==
    CHOOSE k \in i..(Len(t) + 1) :
        ~IsSpace(At(t, k)) /\ \A j \in i..(k - 1) : IsSpace(t[j])

\* s without the characters of the set
RemoveChars(s, set) ==
    LET keep == Positions([k \in 1..Len(s) |-> IF s[k] \in set THEN "-" ELSE "+"], "+", 1, Len(s))
    IN  [k \in 1..Len(keep) |-> s[keep[k]]]

\* the end of the thousands groups that follow position j: a space or a period, three digits
RECURSIVE GroupsEnd(_, _)
GroupsEnd(t, j) ==
    IF /\ At(t, j + 1) \in {" ", "."}
       /\ IsDigit(At(t, j + 2)) /\ IsDigit(At(t, j + 3)) /\ IsDigit(At(t, j + 4))
       /\ ~IsDigit(At(t, j + 5))
    THEN GroupsEnd(t, j + 4)
    ELSE j

\* the end of the numeral that starts at i: digits, thousands groups, a decimal comma part
MoneyNumeralEnd(t, i) ==
    LET j == GroupsEnd(t, DigitsEnd(t, i))
    IN  IF At(t, j + 1) = "," /\ IsDigit(At(t, j + 2)) THEN DigitsEnd(t, j + 2) ELSE j

CurrencyTokens ==
    << <<"k","o","r","u","n","y">>, <<"k","o","r","u","n","a">>,
       <<"k","o","r","u","n">>, <<"k","c-caron">> >>

\* the currency token that starts at k, or 0
CurrencyAt(t, k) ==
    LET fits(n) == /\ k + Len(CurrencyTokens[n]) - 1 <= Len(t)
                   /\ Lower(SubSeq(t, k, k + Len(CurrencyTokens[n]) - 1)) = CurrencyTokens[n]
                   /\ ~IsWordChar(At(t, k + Len(CurrencyTokens[n])))
    IN  IF \E n \in 1..4 : fits(n)
        THEN CHOOSE n \in 1..4 : fits(n) /\ \A o \in 1..(n - 1) : ~fits(o)
        ELSE 0

\* the end of the monetary amount that starts at i, or 0
MoneyEnd(t, i) ==
    IF ~NumeralStart(t, i) THEN 0
    ELSE LET k == SkipSpaces(t, MoneyNumeralEnd(t, i) + 1)
         IN  IF CurrencyAt(t, k) = 0 THEN 0
             ELSE k + Len(CurrencyTokens[CurrencyAt(t, k)]) - 1

MoneyTags(t, i) ==
    { <<"m","o","n","e","y",":">> \o Strip(SubSeq(t, i, MoneyEnd(t, i))),
      <<"m","o","n","e","y","_","v","a","l","u","e",":">> \o
          [k \in 1..Len(RemoveChars(SubSeq(t, i, MoneyNumeralEnd(t, i)), {" ", "."})) |->
              LET c == RemoveChars(SubSeq(t, i, MoneyNumeralEnd(t, i)), {" ", "."})[k]
              IN  IF c = "," THEN "." ELSE c] }

\* the end of the percentage that starts at i, or 0: one to three digits, a decimal
\* part after a comma or a period, a percent sign
PercentEnd(t, i) ==
    IF ~NumeralStart(t, i) \/ DigitsEnd(t, i) - i + 1 > 3 THEN 0
    ELSE LET j0 == DigitsEnd(t, i)
             j1 == IF At(t, j0 + 1) \in {",", "."} /\ IsDigit(At(t, SkipSpaces(t, j0 + 2)))
                   THEN DigitsEnd(t, SkipSpaces(t, j0 + 2))
                   ELSE j0
             k  == SkipSpaces(t, j1 + 1)
         IN  IF At(t, k) = "%" THEN k ELSE 0

PercentTags(t, i) ==
    { <<"p","e","r","c","e","n","t",":">> \o RemoveChars(SubSeq(t, i, PercentEnd(t, i)), {" "}) }

\* the end of the date that starts at i, or 0: D[D].M[M].(YY|YYYY), a space allowed
\* after each period
DateEnd(t, i) ==
    IF ~NumeralStart(t, i) THEN 0
    ELSE LET d  == DigitsEnd(t, i)
             m0 == IF At(t, d + 2) = " " THEN d + 3 ELSE d + 2
             m  == DigitsEnd(t, m0)
             y0 == IF At(t, m + 2) = " " THEN m + 3 ELSE m + 2
             y  == DigitsEnd(t, y0)
         IN  IF /\ d - i + 1 \in {1, 2} /\ At(t, d + 1) = "."
                /\ m - m0 + 1 \in {1, 2} /\ At(t, m + 1) = "."
                /\ y - y0 + 1 \in {2, 4}
             THEN y ELSE 0

DateTags(t, i) ==
    { <<"d","a","t","e",":">> \o RemoveChars(SubSeq(t, i, DateEnd(t, i)), {" "}) }

\* the tags of the matches of one pattern from position i on, a match starting
\* where the one before it ends
RECURSIVE ScanMoney(_, _)
ScanMoney(t, i) ==
    IF \A k \in i..Len(t) : MoneyEnd(t, k) = 0 THEN {}
    ELSE LET k == CHOOSE k \in i..Len(t) :
                      MoneyEnd(t, k) # 0 /\ \A j \in i..(k - 1) : MoneyEnd(t, j) = 0
         IN  MoneyTags(t, k) \cup ScanMoney(t, MoneyEnd(t, k) + 1)

RECURSIVE ScanPercent(_, _)
ScanPercent(t, i) ==
    IF \A k \in i..Len(t) : PercentEnd(t, k) = 0 THEN {}
    ELSE LET k == CHOOSE k \in i..Len(t) :
                      PercentEnd(t, k) # 0 /\ \A j \in i..(k - 1) : PercentEnd(t, j) = 0
         IN  PercentTags(t, k) \cup ScanPercent(t, PercentEnd(t, k) + 1)

RECURSIVE ScanDate(_, _)
ScanDate(t, i) ==
    IF \A k \in i..Len(t) : DateEnd(t, k) = 0 THEN {}
    ELSE LET k == CHOOSE k \in i..Len(t) :
                      DateEnd(t, k) # 0 /\ \A j \in i..(k - 1) : DateEnd(t, j) = 0
         IN  DateTags(t, k) \cup ScanDate(t, DateEnd(t, k) + 1)

DerivedTags(t) == ScanMoney(t, 1) \cup ScanPercent(t, 1) \cup ScanDate(t, 1)

\* C8: the tags of an article hold the derived tag of every monetary amount,
\* percentage and Czech numeric date of its full_content, besides the keyword tags.
C8_DerivedTagsPresent ==
    Parsed => DerivedTags(Article.full_content) \subseteq SeqToSet(Article.tags)

-----------------------------------------------------------------------------
(* The claims about main.  In a step of the for loop idx grows by one, page' *)
(* is the page of candidate links[idx], and the clock stands still.          *)

LoopStep == pc = "loop" /\ idx' = idx + 1

\* the step called save_article(art, base_dir)
SaveStep == LoopStep /\ ~single_file /\ art' # None /\ art'[1].full_content # <<>>

\* the paths whose file f2 holds and f does not, or holds with another content
Written(f, f2) ==
    {q \in DOMAIN f2.files : q \notin DOMAIN f.files \/ f2.files[q] # f.files[q]}

\* C1: when a file exists at the path computed from the article's date and
\* md5_tail8(url), save_article writes nothing: the directories, the set of files
\* and every file's content are as before.
C1_ExistingFileUntouched ==
    [][ (SaveStep /\ article_path(art'[1], Days[clock]) \in DOMAIN fs.files)
            => fs' = fs ]_vars

LastLine == stdout[Len(stdout)]

\* save_article was called for an article whose path held another article, and skipped
C1_Witness ==
    /\ stdout # <<>>
    /\ LastLine.tag = "SKIP"
    /\ art # None
    /\ LastLine.path \in DOMAIN fs.files
    /\ article_path(art[1], Days[clock]) = LastLine.path
    /\ fs.files[LastLine.path].data # <<art[1]>>
    /\ fs.files[LastLine.path].data[1].url # art[1].url

\* the URLs of the "[i/n] url" lines, each printed right before parse_article(url)
ItemUrls ==
    LET at == Positions([k \in 1..Len(stdout) |-> stdout[k].tag], "ITEM", 1, Len(stdout))
    IN  [k \in 1..Len(at) |-> stdout[at[k]].url]

\* C2: whatever the candidates' outcomes, the loop goes on: the candidates passed to
\* parse_article so far are the first idx - 1 of links, in order, no exception leaves
\* main, and main is done only when every candidate has been passed.
C2_LoopNeverStopsEarly ==
    /\ pc # "aborted"
    /\ idx \in 1..(Len(links) + 1)
    /\ ItemUrls = SubSeq(links, 1, idx - 1)
    /\ pc = "done" => idx = Len(links) + 1

\* main is done, the first candidate's request failed and the second was parsed
C2_Witness ==
    /\ pc = "done"
    /\ Len(links) >= 2
    /\ stdout[2] = Line("WARN fetch", links[1], NoPath)
    /\ ItemUrls = links
    /\ \E k \in 1..Len(invoked) : invoked[k] = <<"extract_title", links[2]>>

HasTitleAndBody(a) == a.title # <<>> /\ a.full_content # <<>>

\* the page has no title, or no body paragraph
Unusable(pg) ==
    pg # None /\ (extract_title(pg[1]) = <<>> \/ extract_body_paragraphs(pg[1]) = <<>>)

\* C3: every article main writes or appends has a non-empty title and a non-empty
\* full_content; for a page with an empty title or no body paragraph nothing is
\* written or appended, and no exception leaves main.
C3_OnlyTitledArticlesWithBody ==
    [][ LoopStep =>
          /\ \A q \in Written(fs, fs') : \A k \in 1..Len(fs'.files[q].data) :
                 HasTitleAndBody(fs'.files[q].data[k])
          /\ all_articles' # all_articles =>
                 /\ Len(all_articles') = Len(all_articles) + 1
                 /\ SubSeq(all_articles', 1, Len(all_articles)) = all_articles
                 /\ HasTitleAndBody(all_articles'[Len(all_articles')])
          /\ Unusable(page') => (fs' = fs /\ all_articles' = all_articles /\ pc' = "loop")
      ]_vars

\* one candidate was dropped for its empty body and one was stored
C3_Witness ==
    /\ \E k \in 1..Len(stdout) : stdout[k].tag = "WARN empty"
    /\ \E k \in 1..Len(stdout) :
          /\ stdout[k].tag = "OK"
          /\ stdout[k].path \in DOMAIN fs.files
          /\ HasTitleAndBody(fs.files[stdout[k].path].data[1])
    /\ page # None /\ extract_title(page[1]) # <<>> /\ extract_body_paragraphs(page[1]) = <<>>

\* the page of the last candidate has a title and no body paragraph
EmptyBody(pg) ==
    pg # None /\ extract_title(pg[1]) # <<>> /\ extract_body_paragraphs(pg[1]) = <<>>

CalledFor(fn, url) == \E k \in 1..Len(invoked) : invoked[k] = <<fn, url>>

\* C4 as claimed: for a candidate whose body extraction yields no paragraph,
\* extract_snippet and extract_tags are never invoked.
C4_NoDerivationOnEmptyBody ==
    (idx > 1 /\ page # None /\ extract_body_paragraphs(page[1]) = <<>>) =>
        /\ ~CalledFor("extract_snippet", links[idx - 1])
        /\ ~CalledFor("extract_tags", links[idx - 1])

\* C4 as amended: a candidate whose body extraction yields no paragraph is dropped,
\* nothing is written or appended for it; parse_article has then called
\* extract_snippet and extract_tags for it, after extract_body_paragraphs, and main
\* discards what they returned.
C4_EmptyBodyDroppedAfterDerivation ==
    [][ (LoopStep /\ EmptyBody(page')) =>
          /\ fs' = fs
          /\ all_articles' = all_articles
          /\ stdout'[Len(stdout')] = Line("WARN empty", links[idx], NoPath)
          /\ invoked' = invoked \o
                 << <<"extract_title", links[idx]>>, <<"extract_date", links[idx]>>,
                    <<"extract_author", links[idx]>>, <<"extract_body_paragraphs", links[idx]>>,
                    <<"extract_snippet", links[idx]>>, <<"extract_tags", links[idx]>> >>
      ]_vars

\* a candidate with a title and no body paragraph was dropped, its snippet and tags derived
C4_Witness ==
    /\ idx > 1
    /\ EmptyBody(page)
    /\ stdout # <<>> /\ LastLine = Line("WARN empty", links[idx - 1], NoPath)
    /\ CalledFor("extract_snippet", links[idx - 1])
    /\ CalledFor("extract_tags", links[idx - 1])

\* the file name save_article gives an article stored under the day
NameOf(day, url) ==
    <<"l","i","d","o","v","k","y","-">> \o Pad(day.y, 4) \o Pad(day.m, 2) \o Pad(day.d, 2)
        \o <<"-">> \o md5_tail8(url) \o <<".","j","s","o","n">>

\* C9: when the article's date is no ISO date, save_article does not fail: the
\* year/month directory and the YYYYMMDD of the file name are those of the current
\* day, and the record written is the article as it was passed, the extracted date
\* string included.
C9_UnparsedDateKeptInRecord ==
    [][ (SaveStep /\ fromisoformat(ReplaceZ(art'[1].date)) = None) =>
          LET a   == art'[1]
              now == Days[clock]
              q   == [dir |-> <<Pad(now.y, 4), Pad(now.m, 2)>>, name |-> NameOf(now, a.url)]
          IN  /\ pc' = "loop"
              /\ q \in DOMAIN fs'.files
              /\ q.dir \in fs'.dirs
              /\ Written(fs, fs') \subseteq {q}
              /\ q \notin DOMAIN fs.files =>
                     /\ fs'.files[q].data = <<a>>
                     /\ fs'.files[q].data[1].date = extract_date(page'[1], now)
      ]_vars

\* on the second day of the run an article dated "21. 10. 2025" was stored under
\* 2025/11, its date string unchanged
C9_Witness ==
    /\ clock = 2
    /\ stdout # <<>>
    /\ LastLine.tag = "OK"
    /\ LastLine.path.dir = << <<"2","0","2","5">>, <<"1","1">> >>
    /\ LastLine.path \in DOMAIN fs.files
    /\ fs.files[LastLine.path].data[1].date = DateCz

=============================================================================
